---- MODULE Spec2Model ----
(***************************************************************************)
(* test_proc_cpu: a terminal CPU monitor (src/src/main.rs).                *)
(* The model follows main(): argument dispatch, the one-shot read of the   *)
(* persisted log (read_json_file), and the live loop                       *)
(*   get_cpu_times -> store_values -> clear -> print_values -> evict ->    *)
(*   sleep.                                                                *)
(* u64 and i64 are modelled with Bits bits instead of 64, so that the      *)
(* cast `as i64` and the signed arithmetic keep their wrap-around.         *)
(***************************************************************************)
EXTENDS Integers, Sequences, FiniteSets

\* ------------------------------------------------------------------ bounds
\* width of u64 / i64 in the model
Bits == 12
\* largest value of --times that is explored
MaxTimes == 2
\* snapshots taken over all runs
MaxTicks == 3
\* invocations of the program (the log file outlives a run)
MaxRuns == 2
\* longest counter vector handed to calculate_time_diff on its own
MaxLen == 2
\* Duration::from_secs(1) in clock units: the clock counts half seconds
Res == 2

\* the wall clock runs from 0 (the first invocation) to MaxNow clock units
MaxNow == Res * MaxTicks - 1
\* a tick spends up to one second between its start and its append
MaxDelay == Res

\* ------------------------------------------------------------- arithmetic
Min(a, b) == IF a < b THEN a ELSE b
Max(a, b) == IF a > b THEN a ELSE b

TwoW == 2 ^ Bits
Half == 2 ^ (Bits - 1)

\* the values of u64 and of i64
U64 == 0 .. (TwoW - 1)
FitsI64(z) == z >= -Half /\ z < Half

\* `x as i64` for x: u64 (two's complement reinterpretation)
AsI64(x) == IF x >= Half THEN x - TwoW ELSE x

\* a signed result reduced to i64 (what a release build keeps on overflow)
WrapI64(z) == ((z + Half) % TwoW) - Half

\* i64 division truncates toward zero
TruncDiv(a, b) == IF a >= 0 THEN a \div b ELSE -((-a) \div b)

RECURSIVE SumSeq(_)
SumSeq(s) == IF s = <<>> THEN 0 ELSE s[1] + SumSeq(Tail(s))

\* --------------------------------------------------------- calculate_time_diff
\* zip() stops at the shorter of the two slices
ZipLen(prev, current) == Min(Len(prev), Len(current))

\* a variant that clamps a negative difference to 0
calculate_time_diff_clamped(prev, current) ==
    [i \in 1 .. ZipLen(prev, current) |->
        Max(WrapI64(AsI64(current[i]) - AsI64(prev[i])), 0)]

calculate_time_diff(prev, current) ==
    [i \in 1 .. ZipLen(prev, current) |->
        WrapI64(AsI64(current[i]) - AsI64(prev[i]))]

\* the subtraction of line 41 overflows i64 for some element
DiffOverflows(prev, current) ==
    \E i \in 1 .. ZipLen(prev, current) :
        ~FitsI64(AsI64(current[i]) - AsI64(prev[i]))

\* ------------------------------------------------------------------- f32
\* An f32 is NaN, an infinity, or s * m * 2^e with m = 0 or 2^23 <= m < 2^24.
MantBits == 24

F32NaN == [k |-> "nan"]
F32Inf(s) == [k |-> "inf", s |-> s]
F32Fin(s, m, e) == [k |-> "fin", s |-> s, m |-> m, e |-> e]
F32Zero == F32Fin(1, 0, 0)

RECURSIVE BitLen(_)
BitLen(n) == IF n = 0 THEN 0 ELSE 1 + BitLen(n \div 2)

\* n / 2^sh rounded to the nearest integer, ties to even (0 <= n < 2^31)
RoundShiftRight(n, sh) ==
    IF sh = 0 THEN n
    ELSE IF sh > 30 THEN (IF sh = 31 /\ n > 2 ^ 30 THEN 1 ELSE 0)
    ELSE LET p == 2 ^ sh
             q == n \div p
             r == n % p
             h == p \div 2
         IN  IF r > h \/ (r = h /\ q % 2 = 1) THEN q + 1 ELSE q

\* s * n * 2^e rounded to an f32 (round to nearest, ties to even)
F32Round(s, n, e) ==
    IF n = 0 THEN F32Zero
    ELSE LET b == BitLen(n) IN
         IF b <= MantBits
         THEN F32Fin(s, n * 2 ^ (MantBits - b), e - (MantBits - b))
         ELSE LET sh == b - MantBits
                  r == RoundShiftRight(n, sh)
              IN  IF r = 2 ^ MantBits
                  THEN F32Fin(s, 2 ^ (MantBits - 1), e + sh + 1)
                  ELSE F32Fin(s, r, e + sh)

\* `x as f32` for x: i64
I64AsF32(x) == F32Round(IF x < 0 THEN -1 ELSE 1, IF x < 0 THEN -x ELSE x, 0)

\* n steps of binary long division of r by d; <<quotient bits, remainder>>
RECURSIVE LongDiv(_, _, _, _)
LongDiv(r, d, m, n) ==
    IF n = 0 THEN <<m, r>>
    ELSE LET bit == IF r >= d THEN 1 ELSE 0
         IN  LongDiv(2 * (r - bit * d), d, 2 * m + bit, n - 1)

\* x / y in f32
F32Div(x, y) ==
    IF x.k = "nan" \/ y.k = "nan" THEN F32NaN
    ELSE IF x.k = "inf" THEN (IF y.k = "inf" THEN F32NaN ELSE F32Inf(x.s * y.s))
    ELSE IF y.k = "inf" THEN F32Zero
    ELSE IF y.m = 0 THEN (IF x.m = 0 THEN F32NaN ELSE F32Inf(x.s * y.s))
    ELSE IF x.m = 0 THEN F32Zero
    ELSE LET lt == x.m < y.m
             qr == LongDiv(IF lt THEN 2 * x.m ELSE x.m, y.m, 0, MantBits)
             m  == qr[1]
             rb == IF qr[2] >= y.m THEN 1 ELSE 0
             st == qr[2] - rb * y.m
             up == rb = 1 /\ (st # 0 \/ m % 2 = 1)
             e  == x.e - y.e - (MantBits - 1) - (IF lt THEN 1 ELSE 0)
         IN  F32Round(x.s * y.s, IF up THEN m + 1 ELSE m, e)

\* x - y in f32, for finite x and any y (guard, round and sticky bits)
F32Sub(x, y) ==
    IF y.k = "nan" THEN F32NaN
    ELSE IF y.k = "inf" THEN F32Inf(-(y.s))
    ELSE IF y.m = 0 THEN x
    ELSE IF x.m = 0 THEN F32Fin(-(y.s), y.m, y.e)
    ELSE LET xbig == x.e >= y.e
             big  == IF xbig THEN x ELSE y
             sml  == IF xbig THEN y ELSE x
             d    == big.e - sml.e
             sm   == IF d > 27 THEN 1
                     ELSE LET p == 2 ^ d
                          IN  ((sml.m * 8) \div p)
                              + (IF ((sml.m * 8) % p) # 0 /\ ((sml.m * 8) \div p) % 2 = 0
                                 THEN 1 ELSE 0)
             sx   == IF xbig THEN x.s * big.m * 8 ELSE x.s * sm
             sy   == IF xbig THEN y.s * sm ELSE y.s * big.m * 8
             n    == sx - sy
         IN  F32Round(IF n < 0 THEN -1 ELSE 1, IF n < 0 THEN -n ELSE n, big.e - 3)

\* x * c in f32 for a small integer constant c (exactly representable)
F32MulInt(x, c) ==
    IF x.k = "nan" THEN F32NaN
    ELSE IF x.k = "inf" THEN x
    ELSE F32Round(x.s, x.m * c, x.e)

\* what "{:.2}" prints: "NaN", "inf", "-inf", or the value in hundredths
\* rounded to the nearest, ties to even
Format2(x) ==
    IF x.k = "nan" THEN "NaN"
    ELSE IF x.k = "inf" THEN (IF x.s = 1 THEN "inf" ELSE "-inf")
    ELSE IF x.e >= 0 THEN x.s * x.m * 100 * 2 ^ x.e
    ELSE x.s * RoundShiftRight(x.m * 100, -(x.e))

F32One == F32Fin(1, 2 ^ (MantBits - 1), -(MantBits - 1))

\* a variant of lines 154, 160 that counts idle only, without iowait
usage_percent_idle_only(avgs) ==
    LET total_time == WrapI64(SumSeq(avgs))
        idle_time  == avgs[4]
    IN  F32MulInt(F32Sub(F32One, F32Div(I64AsF32(idle_time), I64AsF32(total_time))), 100)

\* lines 153-155 and 159-161: the usage percentage of one row of deltas
usage_percent(avgs) ==
    LET total_time == WrapI64(SumSeq(avgs))
        idle_time  == WrapI64(avgs[4] + avgs[5])
    IN  F32MulInt(F32Sub(F32One, F32Div(I64AsF32(idle_time), I64AsF32(total_time))), 100)

\* ------------------------------------------------------------ print_values
\* the accumulators are vec![0i64; 10]
NumFields == 10
ZeroRow == [i \in 1 .. NumFields |-> 0]

\* a snapshot is the tuple (timestamp, cpu_times, core_times) of store_values
SnapCpu(snap) == snap[2]
SnapCores(snap) == snap[3]

\* variants of the test of line 89 with the threshold off by one
NotEnoughBelow1(num_values) == num_values < 1
NotEnoughBelow3(num_values) == num_values < 3

\* line 89: the window is too short to hold a pair
NotEnough(num_values) == num_values < 2

\* line 94; usize arithmetic: saturating_sub stops at 0, and num_values - 2
\* would wrap below 2 (line 89 keeps it from that)
start_index(num_values, avg, times) ==
    IF avg THEN Max(num_values - times, 0) ELSE (num_values - 2) % TwoW

\* line 95
actual_times(num_values, avg, times) ==
    IF avg THEN num_values - start_index(num_values, avg, times) ELSE 1

\* windows(2).skip(start_index): the pair (sv[k], sv[k+1]) for each k, 1-based
PairIndices(num_values, avg, times) ==
    (start_index(num_values, avg, times) + 1) .. (num_values - 1)

\* lines 105-107 and 111-113: row[i] += diff[i]
AddRow(row, diff) ==
    [i \in 1 .. Len(row) |->
        IF i <= Len(diff) THEN WrapI64(row[i] + diff[i]) ELSE row[i]]

AddRowOverflows(row, diff) ==
    \E i \in 1 .. Min(Len(row), Len(diff)) : ~FitsI64(row[i] + diff[i])

\* the accumulators: cpu_avgs, core_avgs, and whether an index went out of
\* range (oob) or an i64 operation overflowed (ovf) on the way
NewAcc(stored) ==
    [cpu |-> ZeroRow,
     cores |-> [j \in 1 .. Len(SnapCores(stored[1])) |-> ZeroRow],
     oob |-> FALSE, ovf |-> FALSE]

\* lines 101-114: one iteration of the loop over pairs
AccPair(acc, prev, curr) ==
    LET cpu_diff == calculate_time_diff(SnapCpu(prev), SnapCpu(curr))
        nz == Min(Len(SnapCores(prev)), Len(SnapCores(curr)))
        core_diff(j) == calculate_time_diff(SnapCores(prev)[j], SnapCores(curr)[j])
    IN  [cpu |-> AddRow(acc.cpu, cpu_diff),
         cores |-> [j \in 1 .. Len(acc.cores) |->
                      IF j <= nz THEN AddRow(acc.cores[j], core_diff(j))
                      ELSE acc.cores[j]],
         oob |-> \/ acc.oob
                 \/ Len(cpu_diff) > NumFields
                 \/ \E j \in 1 .. nz :
                       /\ Len(core_diff(j)) > 0
                       /\ (j > Len(acc.cores) \/ Len(core_diff(j)) > NumFields),
         ovf |-> \/ acc.ovf
                 \/ DiffOverflows(SnapCpu(prev), SnapCpu(curr))
                 \/ AddRowOverflows(acc.cpu, cpu_diff)
                 \/ \E j \in 1 .. Min(nz, Len(acc.cores)) :
                       \/ DiffOverflows(SnapCores(prev)[j], SnapCores(curr)[j])
                       \/ AddRowOverflows(acc.cores[j], core_diff(j))]

\* lines 100-115: the loop over the pairs k .. Len(stored)-1
RECURSIVE Accumulate(_, _, _)
Accumulate(acc, stored, k) ==
    IF k > Len(stored) - 1 THEN acc
    ELSE Accumulate(AccPair(acc, stored[k], stored[k + 1]), stored, k + 1)

\* lines 118-127: every accumulated field divided by actual_times
Average(acc, n) ==
    [acc EXCEPT !.cpu = [i \in 1 .. Len(acc.cpu) |-> TruncDiv(acc.cpu[i], n)],
                !.cores = [j \in 1 .. Len(acc.cores) |->
                              [i \in 1 .. Len(acc.cores[j]) |->
                                  TruncDiv(acc.cores[j][i], n)]]]

\* lines 153-154, 159-160: the integer sums behind a percentage overflow
UsageOverflows(row) ==
    \/ ~FitsI64(row[4] + row[5])
    \/ \E n \in 1 .. Len(row) : ~FitsI64(SumSeq(SubSeq(row, 1, n)))

\* lines 97-115: the accumulators after the loop over the pairs
Accumulated(stored, avg, times) ==
    Accumulate(NewAcc(stored), stored, start_index(Len(stored), avg, times) + 1)

\* print_values aborts on an index out of range (lines 106, 112) or on the
\* division by actual_times = 0 (lines 120, 124)
Aborts(stored, avg, times) ==
    \/ Accumulated(stored, avg, times).oob
    \/ (avg /\ actual_times(Len(stored), avg, times) = 0)

\* lines 97-127: cpu_avgs and core_avgs as they are printed and persisted
\* (for a window of two or more snapshots on which print_values does not abort)
Averages(stored, avg, times) ==
    LET acc == Accumulated(stored, avg, times)
        n   == actual_times(Len(stored), avg, times)
    IN  IF avg THEN Average(acc, n) ELSE acc

\* lines 149-165: the percentages printed in instant mode, "avg" first and
\* then one per row of core_avgs
UsageTable(cpu_avgs, core_avgs) ==
    <<Format2(usage_percent(cpu_avgs))>> \o
    [j \in 1 .. Len(core_avgs) |-> Format2(usage_percent(core_avgs[j]))]

\* an i64 operation of print_values overflows: a build with overflow checks
\* panics there, a build without them goes on with the wrapped value
Overflows(stored, avg, times) ==
    LET res == Averages(stored, avg, times)
    IN  \/ res.ovf
        \/ (~avg /\ Len(stored) < 2)
        \/ (~avg /\ (UsageOverflows(res.cpu)
                     \/ \E j \in 1 .. Len(res.cores) : UsageOverflows(res.cores[j])))

\* a variant of lines 250-255 that never evicts
EvictedNever(stored, avg, times) == stored

\* a variant of lines 250-255 that keeps two snapshots in average mode too
EvictedAboveTwo(stored, avg, times) ==
    IF Len(stored) > 2 THEN Tail(stored) ELSE stored

\* a variant of lines 250-255 that removes the newest snapshot
EvictedNewest(stored, avg, times) ==
    IF avg /\ Len(stored) > times THEN SubSeq(stored, 1, Len(stored) - 1)
    ELSE IF ~avg /\ Len(stored) > 2 THEN SubSeq(stored, 1, Len(stored) - 1)
    ELSE stored

\* main, lines 250-255: the window after the eviction step of a tick
Evicted(stored, avg, times) ==
    IF avg /\ Len(stored) > times THEN Tail(stored)
    ELSE IF ~avg /\ Len(stored) > 2 THEN Tail(stored)
    ELSE stored

\* ------------------------------------------------------- cpu_averages.json
\* Strings are sequences of decimal digits. u64::to_string:
RECURSIVE ToString(_)
ToString(n) == IF n < 10 THEN <<n>> ELSE ToString(n \div 10) \o <<n % 10>>

\* str::parse::<u64>: [ok, val]; the empty string does not parse
RECURSIVE DigitsValue(_)
DigitsValue(str) ==
    IF str = <<>> THEN 0
    ELSE 10 * DigitsValue(SubSeq(str, 1, Len(str) - 1)) + str[Len(str)]

ParseU64(str) ==
    IF str = <<>> THEN [ok |-> FALSE, val |-> 0]
    ELSE [ok |-> TRUE, val |-> DigitsValue(str)]

\* The file is a sequence of tokens: the brackets, the comma and the newline
\* written by lines 183-190, and one token per serialized record
\* {"<key>": {"cpu": [...], "cores": [[...], ...]}}.
LBracket == [t |-> "["]
RBracket == [t |-> "]"]
Comma == [t |-> ","]
Newline == [t |-> "\n"]
JsonObject(key, cpu, cores) == [t |-> "obj", key |-> key, cpu |-> cpu, cores |-> cores]

\* lines 168-173: the record of this tick, keyed by the wall clock in seconds
json_data(secs, cpu_avgs, core_avgs) == JsonObject(ToString(secs), cpu_avgs, core_avgs)

\* a write of data at byte offset pos (0-based), extending the file if needed
WriteAt(f, pos, data) ==
    [i \in 1 .. Max(Len(f), pos + Len(data)) |->
        IF i > pos /\ i <= pos + Len(data) THEN data[i - pos] ELSE f[i]]

\* a variant of lines 182-190 that appends without seeking back
AppendNoSeek(f, rec) ==
    WriteAt(f, Len(f), <<(IF Len(f) = 0 THEN LBracket ELSE Comma), rec, Newline, RBracket>>)

\* a variant of lines 176-190 that opens the file truncating it
AppendTruncating(f, rec) == <<LBracket, rec, Newline, RBracket>>

\* lines 182-190: "[" into an empty file, else "," over the last byte; then
\* the record, a newline and "]"
AppendRecord(f, rec) ==
    LET pos == IF Len(f) = 0 THEN 0 ELSE Len(f) - 1
        sep == IF Len(f) = 0 THEN LBracket ELSE Comma
    IN  WriteAt(f, pos, <<sep, rec, Newline, RBracket>>)

\* lines 55-58: the lines of the file concatenated without their newlines
RECURSIVE ReadLines(_)
ReadLines(f) ==
    IF f = <<>> THEN <<>>
    ELSE (IF f[1] = Newline THEN <<>> ELSE <<f[1]>>) \o ReadLines(Tail(f))

\* line 60: serde_json::from_str on the token string.
\* [ok, array, arr]: a parse error, a lone object, or an array of objects
FromStr(toks) ==
    LET n == Len(toks) IN
    IF n = 1 /\ toks[1].t = "obj"
    THEN [ok |-> TRUE, array |-> FALSE, arr |-> <<toks[1]>>]
    ELSE IF /\ n >= 2
            /\ toks[1] = LBracket
            /\ toks[n] = RBracket
            /\ (n = 2 \/ n % 2 = 1)
            /\ \A i \in 2 .. (n - 1) :
                  IF i % 2 = 0 THEN toks[i].t = "obj" ELSE toks[i] = Comma
    THEN [ok |-> TRUE, array |-> TRUE,
          arr |-> [i \in 1 .. ((n - 1) \div 2) |-> toks[2 * i]]]
    ELSE [ok |-> FALSE, array |-> FALSE, arr |-> <<>>]

\* a variant of line 63 that takes the last matching element
FindLast(arr, timestamp) ==
    LET hits == {i \in 1 .. Len(arr) : arr[i].key = timestamp}
    IN  IF hits = {} THEN 0 ELSE CHOOSE i \in hits : \A j \in hits : j <= i

\* line 63: the first element whose member `timestamp` is an object
\* (0 when there is none)
Find(arr, timestamp) ==
    LET hits == {i \in 1 .. Len(arr) : arr[i].key = timestamp}
    IN  IF hits = {} THEN 0 ELSE CHOOSE i \in hits : \A j \in hits : i <= j

\* lines 193-218: what print_json_data writes for one record; the timestamp
\* is parsed (line 194) and unwrap panics when it is no number
PrintJsonData(timestamp, data) ==
    [kind |-> "record", ts |-> ParseU64(timestamp).val,
     cpu |-> data.cpu, cores |-> data.cores]

\* lines 51-77: [panic, out]: the lines printed, or a panic (file missing,
\* contents not JSON, a key that is no number)
read_json_file(exists, f, timestamp) ==
    LET parsed == FromStr(ReadLines(f))
        arr    == parsed.arr
    IN  IF ~exists \/ ~parsed.ok THEN [panic |-> TRUE, out |-> <<>>]
        ELSE IF timestamp # <<>>
        THEN LET ts == timestamp[1]
                 i  == IF parsed.array THEN Find(arr, ts) ELSE 0
             IN  IF i # 0
                 THEN [panic |-> ~ParseU64(ts).ok,
                       out |-> <<PrintJsonData(ts, arr[i])>>]
                 ELSE [panic |-> FALSE,
                       out |-> <<[kind |-> "not_found", ts |-> ts]>>]
        ELSE IF parsed.array
             THEN [panic |-> \E i \in 1 .. Len(arr) : ~ParseU64(arr[i].key).ok,
                   out |-> [i \in 1 .. Len(arr) |-> PrintJsonData(arr[i].key, arr[i])]]
             ELSE [panic |-> FALSE, out |-> <<>>]

\* --------------------------------------------------------------- /proc/stat
\* A word is a sequence of characters: the digits 0 .. 9, and NonDigit for
\* any character that is no digit (a letter, a sign).
NonDigit == 10
IsDigits(w) == \A i \in 1 .. Len(w) : w[i] \in 0 .. 9

\* lines 18 and 28, x.parse::<u64>(): [ok, val]; a word with a character
\* that is no digit, or a number beyond u64, does not parse
ParseField(w) ==
    IF IsDigits(w) /\ ParseU64(w).ok /\ DigitsValue(w) < TwoW
    THEN [ok |-> TRUE, val |-> DigitsValue(w)]
    ELSE [ok |-> FALSE, val |-> 0]

\* A line of the file is [cpu, words]: whether it starts with "cpu", and its
\* whitespace-separated words after the first (split_whitespace().skip(1)).
\* lines 16-19 and 26-29: every word parsed, in order, however many there are
ParseLine(line) ==
    [ok  |-> \A i \in 1 .. Len(line.words) : ParseField(line.words[i]).ok,
     val |-> [i \in 1 .. Len(line.words) |-> ParseField(line.words[i]).val]]

\* lines 22-34: the lines taken as per-core lines, up to the first line
\* that does not start with "cpu"
RECURSIVE CoreLines(_)
CoreLines(lines) ==
    IF lines = <<>> \/ ~lines[1].cpu THEN <<>>
    ELSE <<lines[1]>> \o CoreLines(Tail(lines))

\* lines 10-37: [panic, val] with val = (cpu_times, core_times); the unwraps
\* panic when the file cannot be opened, has no first line, or a word of a
\* line that is read does not parse
get_cpu_times(readable, lines) ==
    IF ~readable \/ lines = <<>> THEN [panic |-> TRUE, val |-> <<>>]
    ELSE LET first == ParseLine(lines[1])
             cores == CoreLines(Tail(lines))
         IN  IF ~first.ok \/ \E j \in 1 .. Len(cores) : ~ParseLine(cores[j]).ok
             THEN [panic |-> TRUE, val |-> <<>>]
             ELSE [panic |-> FALSE,
                   val |-> <<first.val,
                             [j \in 1 .. Len(cores) |-> ParseLine(cores[j]).val]>>]

\* ------------------------------------------------------------------ state
VARIABLES
    pc,             \* where main() is: "main", "loop", "store", "clear",
                    \* "print", "evict", "sleep", "exit", "panic"
    print_avg,      \* --avg given
    num_times,      \* --times N
    read,           \* --read given
    timestamp,      \* the argument after --read: <<>> (None) or <<str>>
    stored_values,  \* the window of snapshots
    cpu_times,      \* the reading of this tick (locals of the loop body)
    core_times,
    file_exists,    \* cpu_averages.json exists
    file,           \* its contents
    now,            \* wall clock, 1/Res seconds
    start,          \* Instant::now() at the top of the tick
    stdout,         \* what the current tick (or read) has printed so far
    ticks,          \* snapshots taken so far, over all runs
    runs,           \* invocations so far
    persisted,      \* history: the records appended to the log so far
    appended,       \* history: records appended since the current tick began
    taken,          \* history: every snapshot stored by the current run
    call_args,      \* the arguments of a function called on its own
    call_ret        \* <<>> before the call, <<result>> after it

vars == <<pc, print_avg, num_times, read, timestamp, stored_values, cpu_times,
          core_times, file_exists, file, now, start, stdout, ticks, runs,
          persisted, appended, taken, call_args, call_ret>>

\* the variables of the program, and those of a function called on its own
callvars == <<call_args, call_ret>>
progvars == <<pc, print_avg, num_times, read, timestamp, stored_values,
              cpu_times, core_times, file_exists, file, now, start, stdout,
              ticks, runs, persisted, appended, taken>>

\* a counter row with only user, system, idle and iowait set
CounterRow(user, system, idle, iowait) ==
    <<user, 0, system, idle, iowait, 0, 0, 0, 0, 0>>

\* The readings of /proc/stat that are explored, as (cpu_times, core_times):
\* two readings of a two-core host one second apart, and a later reading
\* taken after one core went offline.
ProcStat ==
    { <<CounterRow(100, 50, 800, 0),
        <<CounterRow(60, 30, 400, 0), CounterRow(40, 20, 400, 0)>> >>,
      <<CounterRow(110, 60, 850, 0),
        <<CounterRow(65, 35, 420, 5), CounterRow(45, 25, 425, 0)>> >>,
      <<CounterRow(700, 50, 1200, 0),
        <<CounterRow(700, 50, 1200, 0)>> >> }

\* the arguments after --read that are explored
Timestamps ==
    {<<>>} \cup {<<ToString(k)>> : k \in 0 .. (MaxNow \div Res)}
           \cup {<< <<0, 1>> >>, << <<>> >>}

\* The command lines that are explored: --avg with --times 0 .. MaxTimes,
\* instant mode, and --read with each of the timestamps. Where --times is
\* parsed but never used, it is explored with one value only.
Args ==
    [print_avg : {TRUE}, num_times : 0 .. MaxTimes, read : {FALSE}, timestamp : {<<>>}]
    \cup
    [print_avg : {FALSE}, num_times : {MaxTimes}, read : {FALSE}, timestamp : {<<>>}]
    \cup
    [print_avg : {FALSE}, num_times : {MaxTimes}, read : {TRUE}, timestamp : Timestamps]

\* SystemTime::now().duration_since(UNIX_EPOCH).as_secs()
SystemTimeSecs == now \div Res

\* ---------------------------------------------------------------- actions
Init ==
    /\ pc = "main"
    /\ \E a \in Args :
          /\ print_avg = a.print_avg
          /\ num_times = a.num_times
          /\ read = a.read
          /\ timestamp = a.timestamp
    /\ stored_values = <<>>
    /\ cpu_times = <<>>
    /\ core_times = <<>>
    /\ file_exists \in BOOLEAN
    /\ file = <<>>
    /\ now \in 0 .. (Res - 1)
    /\ start = 0
    /\ stdout = <<>>
    /\ ticks = 0
    /\ runs = 1
    /\ persisted = <<>>
    /\ appended = 0
    /\ taken = <<>>
    /\ call_args = <<>>
    /\ call_ret = <<>>

\* a variant of lines 229-233 without the return of line 232
ReadModeFallsThrough ==
    /\ pc = "main"
    /\ read
    /\ LET r == read_json_file(file_exists, file, timestamp)
       IN  /\ pc' = IF r.panic THEN "panic" ELSE "loop"
           /\ stdout' = r.out
    /\ UNCHANGED callvars
    /\ UNCHANGED taken
    /\ UNCHANGED <<print_avg, num_times, read, timestamp, stored_values,
                   cpu_times, core_times, file_exists, file, now, start,
                   ticks, runs, persisted, appended>>

\* main, lines 229-233: --read prints from the log and returns
ReadMode ==
    /\ pc = "main"
    /\ read
    /\ LET r == read_json_file(file_exists, file, timestamp)
       IN  /\ pc' = IF r.panic THEN "panic" ELSE "exit"
           /\ stdout' = r.out
    /\ UNCHANGED callvars
    /\ UNCHANGED taken
    /\ UNCHANGED <<print_avg, num_times, read, timestamp, stored_values,
                   cpu_times, core_times, file_exists, file, now, start,
                   ticks, runs, persisted, appended>>

\* main, line 235: the live loop starts with an empty window
EnterLoop ==
    /\ pc = "main"
    /\ ~read
    /\ pc' = "loop"
    /\ stored_values' = <<>>
    /\ taken' = <<>>
    /\ UNCHANGED callvars
    /\ UNCHANGED <<print_avg, num_times, read, timestamp, cpu_times,
                   core_times, file_exists, file, now, start, stdout, ticks,
                   runs, persisted, appended>>

\* main, lines 238-240: the tick begins and /proc/stat is read
GetCpuTimes ==
    /\ pc = "loop"
    /\ ticks < MaxTicks
    /\ \E s \in ProcStat, d \in 0 .. MaxDelay :
          /\ now + d <= MaxNow
          /\ cpu_times' = s[1]
          /\ core_times' = s[2]
          /\ now' = now + d
    /\ start' = now
    /\ ticks' = ticks + 1
    /\ stdout' = <<>>
    /\ appended' = 0
    /\ pc' = "store"
    /\ UNCHANGED callvars
    /\ UNCHANGED taken
    /\ UNCHANGED <<print_avg, num_times, read, timestamp, stored_values,
                   file_exists, file, runs, persisted>>

\* store_values, lines 45-48
StoreValues ==
    /\ pc = "store"
    /\ stored_values' = Append(stored_values, <<SystemTimeSecs, cpu_times, core_times>>)
    /\ taken' = Append(taken, <<SystemTimeSecs, cpu_times, core_times>>)
    /\ pc' = "clear"
    /\ UNCHANGED callvars
    /\ UNCHANGED <<print_avg, num_times, read, timestamp, cpu_times,
                   core_times, file_exists, file, now, start, stdout, ticks,
                   runs, persisted, appended>>

\* main, lines 244-246
ClearScreen ==
    /\ pc = "clear"
    /\ stdout' = IF print_avg THEN stdout ELSE <<[kind |-> "clear"]>>
    /\ pc' = "print"
    /\ UNCHANGED callvars
    /\ UNCHANGED taken
    /\ UNCHANGED <<print_avg, num_times, read, timestamp, stored_values,
                   cpu_times, core_times, file_exists, file, now, start,
                   ticks, runs, persisted, appended>>

\* print_values, lines 89-92: fewer than two snapshots
PrintValuesNotEnough ==
    /\ pc = "print"
    /\ NotEnough(Len(stored_values))
    /\ stdout' = Append(stdout, [kind |-> "not_enough"])
    /\ pc' = "evict"
    /\ UNCHANGED callvars
    /\ UNCHANGED taken
    /\ UNCHANGED <<print_avg, num_times, read, timestamp, stored_values,
                   cpu_times, core_times, file_exists, file, now, start,
                   ticks, runs, persisted, appended>>

\* print_values aborts: an index out of range (lines 106, 112), a division
\* by zero (lines 120, 124), or an arithmetic overflow in a build that checks
PrintValuesPanic ==
    /\ pc = "print"
    /\ ~NotEnough(Len(stored_values))
    /\ \/ Aborts(stored_values, print_avg, num_times)
       \/ Overflows(stored_values, print_avg, num_times)
    /\ pc' = "panic"
    /\ UNCHANGED callvars
    /\ UNCHANGED taken
    /\ UNCHANGED <<print_avg, num_times, read, timestamp, stored_values,
                   cpu_times, core_times, file_exists, file, now, start,
                   stdout, ticks, runs, persisted, appended>>

\* print_values, lines 94-190: the tables are printed and the record of this
\* tick is appended to cpu_averages.json
PrintValues ==
    /\ pc = "print"
    /\ ~NotEnough(Len(stored_values))
    /\ ~Aborts(stored_values, print_avg, num_times)
    /\ \E r \in {Averages(stored_values, print_avg, num_times)} :
          /\ stdout' = stdout
                 \o <<[kind |-> "table", avg |-> print_avg,
                       cpu |-> r.cpu, cores |-> r.cores]>>
                 \o (IF print_avg THEN <<>>
                     ELSE <<[kind |-> "usage", pct |-> UsageTable(r.cpu, r.cores)]>>)
          /\ \E rec \in {json_data(SystemTimeSecs, r.cpu, r.cores)} :
                /\ file' = AppendRecord(file, rec)
                /\ persisted' = Append(persisted, rec)
    /\ file_exists' = TRUE
    /\ appended' = appended + 1
    /\ pc' = "evict"
    /\ UNCHANGED callvars
    /\ UNCHANGED taken
    /\ UNCHANGED <<print_avg, num_times, read, timestamp, stored_values,
                   cpu_times, core_times, now, start, ticks, runs>>

\* main, lines 250-255
Evict ==
    /\ pc = "evict"
    /\ stored_values' = Evicted(stored_values, print_avg, num_times)
    /\ pc' = "sleep"
    /\ UNCHANGED callvars
    /\ UNCHANGED taken
    /\ UNCHANGED <<print_avg, num_times, read, timestamp, cpu_times,
                   core_times, file_exists, file, now, start, stdout, ticks,
                   runs, persisted, appended>>

\* main, lines 257-260: sleep what is left of the second
Sleep ==
    /\ pc = "sleep"
    /\ now' = IF now - start < Res THEN start + Res ELSE now
    /\ cpu_times' = <<>>
    /\ core_times' = <<>>
    /\ pc' = "loop"
    /\ UNCHANGED callvars
    /\ UNCHANGED taken
    /\ UNCHANGED <<print_avg, num_times, read, timestamp, stored_values,
                   file_exists, file, start, stdout, ticks, runs, persisted,
                   appended>>

\* The process has returned, aborted or was interrupted at the top of the
\* loop, and the program is invoked again; only the log file survives.
Restart ==
    /\ pc \in {"exit", "panic", "loop"}
    /\ runs < MaxRuns
    /\ runs' = runs + 1
    /\ pc' = "main"
    /\ \E a \in Args :
          /\ print_avg' = a.print_avg
          /\ num_times' = a.num_times
          /\ read' = a.read
          /\ timestamp' = a.timestamp
    /\ stored_values' = <<>>
    /\ cpu_times' = <<>>
    /\ core_times' = <<>>
    /\ stdout' = <<>>
    /\ appended' = 0
    /\ taken' = <<>>
    /\ UNCHANGED callvars
    /\ UNCHANGED <<file_exists, file, now, start, ticks, persisted>>

Next ==
    \/ ReadMode
    \/ EnterLoop
    \/ GetCpuTimes
    \/ StoreValues
    \/ ClearScreen
    \/ PrintValuesNotEnough
    \/ PrintValuesPanic
    \/ PrintValues
    \/ Evict
    \/ Sleep
    \/ Restart

Spec == Init /\ [][Next]_vars

\* ------------------------------------------- calculate_time_diff on its own
\* counters around the ends of u64 and around the largest i64
DiffValues == {0, 1, Half - 1, Half, TwoW - 1}
DiffVectors == UNION {[1 .. n -> DiffValues] : n \in 0 .. MaxLen}

\* the program itself does not run
Idle ==
    /\ pc = "call"
    /\ print_avg = FALSE
    /\ num_times = 0
    /\ read = FALSE
    /\ timestamp = <<>>
    /\ stored_values = <<>>
    /\ cpu_times = <<>>
    /\ core_times = <<>>
    /\ file_exists = FALSE
    /\ file = <<>>
    /\ now = 0
    /\ start = 0
    /\ stdout = <<>>
    /\ ticks = 0
    /\ runs = 1
    /\ persisted = <<>>
    /\ appended = 0
    /\ taken = <<>>

InitDiff ==
    /\ Idle
    /\ call_args \in DiffVectors \X DiffVectors
    /\ call_ret = <<>>

\* lines 39-43: the call returns its vector
CallDiff ==
    /\ call_ret = <<>>
    /\ call_ret' = <<[panic |-> FALSE,
                      val |-> calculate_time_diff(call_args[1], call_args[2])]>>
    /\ UNCHANGED call_args
    /\ UNCHANGED progvars

\* line 41 in a build with overflow checks: the subtraction panics
CallDiffPanic ==
    /\ call_ret = <<>>
    /\ DiffOverflows(call_args[1], call_args[2])
    /\ call_ret' = <<[panic |-> TRUE, val |-> <<>>]>>
    /\ UNCHANGED call_args
    /\ UNCHANGED progvars

NextDiff ==
    \/ CallDiff
    \/ CallDiffPanic

SpecDiff == InitDiff /\ [][NextDiff]_vars

\* ------------------------------------------------- get_cpu_times on its own
\* The lines that are explored: n words after the label, the i-th the
\* number i, with at most one of them (the first or the last) malformed;
\* n is 0, NumFields or one off NumFields.
StatWords(n, bad) == [i \in 1 .. n |-> IF i = bad THEN <<NonDigit>> ELSE ToString(i)]
StatLines ==
    {[cpu |-> c, words |-> StatWords(n, bad)] :
        c \in BOOLEAN,
        n \in {0, NumFields - 1, NumFields, NumFields + 1},
        bad \in {0, 1, NumFields - 1}}
MaxStatLines == MaxLen + 1
StatFiles == UNION {[1 .. n -> StatLines] : n \in 0 .. MaxStatLines}

InitStat ==
    /\ Idle
    /\ call_args \in BOOLEAN \X StatFiles
    /\ call_ret = <<>>

\* lines 10-37: the call returns its snapshot
CallStat ==
    /\ call_ret = <<>>
    /\ ~get_cpu_times(call_args[1], call_args[2]).panic
    /\ call_ret' = <<get_cpu_times(call_args[1], call_args[2])>>
    /\ UNCHANGED call_args
    /\ UNCHANGED progvars

\* lines 11, 15, 18, 23, 28: an unwrap panics
CallStatPanic ==
    /\ call_ret = <<>>
    /\ get_cpu_times(call_args[1], call_args[2]).panic
    /\ call_ret' = <<[panic |-> TRUE, val |-> <<>>]>>
    /\ UNCHANGED call_args
    /\ UNCHANGED progvars

NextStat ==
    \/ CallStat
    \/ CallStatPanic

SpecStat == InitStat /\ [][NextStat]_vars

\* ------------------------------------------------------------------ claims
DiffPrev == call_args[1]
DiffCurrent == call_args[2]
DiffReturned == call_ret # <<>> /\ pc = "call"

\* C3 (as amended): for equal-length counter vectors whose elements fit in
\* i64 (below 2^63), calculate_time_diff returns a vector of the same length
\* whose element i is current[i] - prev[i] as a signed integer, negative
\* when current[i] < prev[i].
C3_SignedDifference ==
    (/\ DiffReturned
     /\ Len(DiffPrev) = Len(DiffCurrent)
     /\ \A i \in 1 .. Len(DiffPrev) : DiffPrev[i] < Half /\ DiffCurrent[i] < Half)
    => /\ ~call_ret[1].panic
       /\ Len(call_ret[1].val) = Len(DiffPrev)
       /\ \A i \in 1 .. Len(DiffPrev) :
             call_ret[1].val[i] = DiffCurrent[i] - DiffPrev[i]

\* C3, witness: a call on equal-length vectors in range with a negative element
C3_Witness ==
    /\ DiffReturned
    /\ Len(DiffPrev) = Len(DiffCurrent)
    /\ Len(DiffPrev) = MaxLen
    /\ \A i \in 1 .. Len(DiffPrev) : DiffPrev[i] < Half /\ DiffCurrent[i] < Half
    /\ DiffCurrent[1] < DiffPrev[1]
    /\ call_ret[1].val[1] < 0

\* C3 as stated: the same for all equal-length counter vectors
C3_AllVectors ==
    (DiffReturned /\ Len(DiffPrev) = Len(DiffCurrent))
    => /\ ~call_ret[1].panic
       /\ Len(call_ret[1].val) = Len(DiffPrev)
       /\ \A i \in 1 .. Len(DiffPrev) :
             call_ret[1].val[i] = DiffCurrent[i] - DiffPrev[i]

\* C4 as stated: on vectors of different lengths the call fails and yields
\* no delta vector
C4_ShapeMismatch ==
    (DiffReturned /\ Len(DiffPrev) # Len(DiffCurrent))
    => call_ret[1].panic


\* print_values has returned from printing the tables and appending the
\* record of this tick; the window is still the one it read
JustPersisted == pc = "evict" /\ appended = 1
LastRecord == persisted[Len(persisted)]
Abs(x) == IF x < 0 THEN -x ELSE x

\* the sum over the pairs k = from .. to of field i of cpu(k+1) - cpu(k)
RECURSIVE SumCpuDeltas(_, _, _, _)
SumCpuDeltas(stored, i, from, to) ==
    IF from > to THEN 0
    ELSE (SnapCpu(stored[from + 1])[i] - SnapCpu(stored[from])[i])
         + SumCpuDeltas(stored, i, from + 1, to)

\* C1 as stated: in average mode the aggregate row that is printed and
\* persisted is, field by field, the sum of the deltas of the last
\* min(N, L-1) consecutive pairs of the window divided by that number of
\* pairs, truncating.
C1_AverageOfLastPairs ==
    (JustPersisted /\ print_avg)
    => LET L == Len(stored_values)
           n == Min(num_times, L - 1)
       IN  n > 0 =>
             LastRecord.cpu =
                [i \in 1 .. NumFields |->
                    TruncDiv(SumCpuDeltas(stored_values, i, L - n, L - 1), n)]

\* C2 (as amended): the window never holds more than N+1 snapshots in
\* average mode and never more than 3 in instant mode, where the snapshot of
\* the tick is appended before the eviction runs; once the eviction step of
\* a tick has run it holds at most N (average) or 2 (instant).
C2_WindowBound ==
    pc # "call" =>
       /\ Len(stored_values) <= (IF print_avg THEN num_times + 1 ELSE 3)
       /\ pc \in {"sleep", "loop"} =>
             Len(stored_values) <= (IF print_avg THEN num_times ELSE 2)

\* C2, witness: instant mode, the aggregator is about to read 3 snapshots
C2_Witness ==
    /\ ~print_avg
    /\ pc = "print"
    /\ Len(stored_values) = 3

\* C2 as stated: after an append the window holds at most 2 snapshots in
\* instant mode and at most N+1 in average mode
C2_WithinCapacity ==
    pc # "call" =>
       Len(stored_values) <= (IF print_avg THEN num_times + 1 ELSE 2)

\* C5: after K >= 1 appends to a log that began empty or absent, the file
\* parses as a JSON array of exactly K single-key objects with the keys and
\* the cpu / cores arrays of the appended records, in append order, and
\* --read without a timestamp prints exactly these records in that order.
C5_RoundTrip ==
    persisted # <<>> =>
       LET parsed == FromStr(ReadLines(file)) IN
       /\ file_exists
       /\ parsed.ok
       /\ parsed.array
       /\ Len(parsed.arr) = Len(persisted)
       /\ \A i \in 1 .. Len(persisted) :
             /\ parsed.arr[i].key = persisted[i].key
             /\ parsed.arr[i].cpu = persisted[i].cpu
             /\ parsed.arr[i].cores = persisted[i].cores
       /\ (pc \in {"exit", "panic"} /\ read /\ timestamp = <<>>) =>
             /\ pc = "exit"
             /\ Len(stdout) = Len(persisted)
             /\ \A i \in 1 .. Len(persisted) :
                   /\ stdout[i].kind = "record"
                   /\ ToString(stdout[i].ts) = persisted[i].key
                   /\ stdout[i].cpu = persisted[i].cpu
                   /\ stdout[i].cores = persisted[i].cores

\* C5, witness: a log of two or more records has been read back in full
C5_Witness ==
    /\ pc = "exit"
    /\ read
    /\ timestamp = <<>>
    /\ Len(persisted) >= 2
    /\ Len(stdout) = Len(persisted)
    /\ persisted[1] # persisted[2]

\* C6 (as amended): a tick appends exactly one record when the window holds
\* at least 2 snapshots at aggregation and print_values returns, in instant
\* and in average mode alike; it appends none when the window holds fewer
\* than 2 snapshots or print_values aborts.
C6_OneRecordPerAggregation ==
    pc # "call" =>
       /\ appended <= 1
       /\ pc = "evict" => appended = (IF Len(stored_values) >= 2 THEN 1 ELSE 0)
       /\ pc \in {"print", "panic"} => appended = 0

\* C6, witness: an instant-mode tick has appended its record
C6_Witness ==
    /\ JustPersisted
    /\ ~print_avg
    /\ Len(persisted) >= 2

\* C6 as stated: when the aggregation step of a tick is over, exactly one
\* record has been appended in that tick
C6_OneRecordEveryTick ==
    pc = "evict" => appended = 1

\* the delta of one pair of counter rows, field by field
PairDelta(prev, curr) == [i \in 1 .. NumFields |-> curr[i] - prev[i]]

\* C7 as stated: in instant mode what a tick renders and persists is the
\* delta of exactly one pair, the snapshot of this tick and the one of the
\* tick before: the aggregate delta and one delta per core of that pair,
\* however many snapshots the window holds.
C7_InstantLastPair ==
    (JustPersisted /\ ~print_avg)
    => LET L    == Len(stored_values)
           prev == stored_values[L - 1]
           curr == stored_values[L]
           tab  == stdout[Len(stdout) - 1]
       IN  Len(SnapCores(prev)) = Len(SnapCores(curr)) =>
             /\ LastRecord.cpu = PairDelta(SnapCpu(prev), SnapCpu(curr))
             /\ LastRecord.cores =
                   [j \in 1 .. Len(SnapCores(curr)) |->
                       PairDelta(SnapCores(prev)[j], SnapCores(curr)[j])]
             /\ tab.kind = "table"
             /\ tab.cpu = LastRecord.cpu
             /\ tab.cores = LastRecord.cores

\* the rows of the percentage table: the aggregate, then the cores
UsageRows == <<LastRecord.cpu>> \o LastRecord.cores
UsagePrinted == stdout[Len(stdout)].pct

\* C8: in instant mode every printed percentage, of the aggregate and of
\* each core on its own, is (1 - (delta[idle] + delta[iowait]) / total) * 100
\* with total the sum of the 10 delta fields, to the two decimals printed
\* (within 0.01); the delta [10,0,10,50,0,0,0,0,0,0] prints 28.57 and a
\* total of 1000 with idle 400 and iowait 0 prints 60.00.
C8_UsageFormula ==
    (JustPersisted /\ ~print_avg)
    => /\ stdout[Len(stdout)].kind = "usage"
       /\ Len(UsagePrinted) = Len(UsageRows)
       /\ \A r \in 1 .. Len(UsageRows) :
             LET row   == UsageRows[r]
                 total == SumSeq(row)
                 idle  == row[4] + row[5]
             IN  /\ total # 0 =>
                       Abs(UsagePrinted[r] * total - 10000 * (total - idle))
                          <= Abs(total)
                 /\ row = <<10, 0, 10, 50, 0, 0, 0, 0, 0, 0>> =>
                       UsagePrinted[r] = 2857
                 /\ (total = 1000 /\ row[4] = 400 /\ row[5] = 0) =>
                       UsagePrinted[r] = 6000

\* C8, witness: the example pair was printed, with a core that spent time
\* in iowait
C8_Witness ==
    /\ JustPersisted
    /\ ~print_avg
    /\ LastRecord.cpu = <<10, 0, 10, 50, 0, 0, 0, 0, 0, 0>>
    /\ UsagePrinted[1] = 2857
    /\ \E j \in 1 .. Len(LastRecord.cores) :
          LastRecord.cores[j][5] # 0 /\ SumSeq(LastRecord.cores[j]) # 0

\* C9: print_values on a window of fewer than 2 snapshots prints the notice
\* and returns: no table, no abort, the log file untouched, and the loop goes
\* on to the eviction step, the sleep and the next tick.
C9_NotEnoughData ==
    [][/\ (pc = "print" /\ Len(stored_values) < 2) =>
             /\ pc' = "evict"
             /\ stdout' = Append(stdout, [kind |-> "not_enough"])
             /\ file' = file
             /\ file_exists' = file_exists
             /\ persisted' = persisted
             /\ stored_values' = stored_values
       /\ (pc = "evict" /\ pc' # "evict") => pc' = "sleep"
       /\ (pc = "sleep" /\ pc' # "sleep") => pc' = "loop"]_vars

\* C9, witness: the notice was printed on a later tick of an average-mode
\* run, with nothing appended
C9_Witness ==
    /\ pc = "evict"
    /\ print_avg
    /\ ticks >= 2
    /\ Len(stored_values) < 2
    /\ stdout = <<[kind |-> "not_enough"]>>
    /\ appended = 0

\* the positions of the appended records whose key is the string ts
KeyHits(ts) == {i \in 1 .. Len(persisted) : persisted[i].key = ts}

\* C10: --read <key> on a log prints exactly the first record whose key is
\* the requested string, and nothing else; when no record has that key it
\* prints "No data found for timestamp <key>." and returns without an error.
C10_ReadOne ==
    (pc \in {"exit", "panic"} /\ read /\ timestamp # <<>> /\ persisted # <<>>)
    => LET ts == timestamp[1] IN
       /\ pc = "exit"
       /\ IF KeyHits(ts) = {}
          THEN stdout = <<[kind |-> "not_found", ts |-> ts]>>
          ELSE LET i == CHOOSE i \in KeyHits(ts) : \A j \in KeyHits(ts) : i <= j
               IN  stdout = <<[kind |-> "record", ts |-> DigitsValue(ts),
                               cpu |-> persisted[i].cpu,
                               cores |-> persisted[i].cores]>>

\* C10, witness: two different records share the requested key
C10_Witness ==
    /\ pc = "exit"
    /\ read
    /\ timestamp # <<>>
    /\ \E i, j \in KeyHits(timestamp[1]) : i < j /\ persisted[i] # persisted[j]

\* the records that the log file holds (none when it does not parse)
LogRecords(f) ==
    LET parsed == FromStr(ReadLines(f))
    IN  IF parsed.ok THEN parsed.arr ELSE <<>>

\* C11: the log is append-only. Every step of the system, a live tick or a
\* read, leaves every record of the file as it was and where it was: the
\* records of the file before the step are the first records of the file
\* after it, nothing but the closing bracket is overwritten, the file is
\* never removed, and only the append of print_values changes it at all.
C11_AppendOnly ==
    [][pc # "call" =>
         /\ file_exists => file_exists'
         /\ (pc = "main" /\ read) => (file' = file /\ file_exists' = file_exists)
         /\ file' # file =>
               /\ pc = "print"
               /\ \A i \in 1 .. (Len(file) - 1) :
                     /\ i <= Len(file')
                     /\ file'[i] = file[i]
               /\ \E old \in {LogRecords(file)}, new \in {LogRecords(file')} :
                     /\ Len(new) = Len(old) + 1
                     /\ \A i \in 1 .. Len(old) : new[i] = old[i]]_vars

\* C11, witness: an average-mode tick has appended a record to a log that
\* held a different record already, which is still the first of the file
C11_Witness ==
    /\ JustPersisted
    /\ print_avg
    /\ Len(persisted) >= 2
    /\ Len(LogRecords(file)) = Len(persisted)
    /\ LogRecords(file)[1] = persisted[1]
    /\ persisted[1] # persisted[2]

\* w is the last Len(w) elements of all, in the same order
IsSuffix(w, all) ==
    /\ Len(w) <= Len(all)
    /\ w = SubSeq(all, Len(all) - Len(w) + 1, Len(all))

\* C12: eviction is FIFO. The eviction step of a tick leaves the window as
\* it is or removes its oldest snapshot (index 0) and nothing else, no other
\* step of a run removes a snapshot, and so the window is at every moment
\* the last snapshots taken by the run, in the order they were taken.
C12_FifoEviction ==
    [][pc # "call" =>
         /\ IsSuffix(stored_values, taken)
         /\ IsSuffix(stored_values', taken')
         /\ pc = "evict" =>
               \/ stored_values' = stored_values
               \/ stored_values # <<>> /\ stored_values' = Tail(stored_values)
         /\ (Len(stored_values') < Len(stored_values) /\ pc' # "main") =>
               /\ pc = "evict"
               /\ stored_values' = Tail(stored_values)
               /\ taken' = taken]_vars

\* C12, witness: the oldest of three different snapshots was evicted and the
\* two that were taken after it remain, in their order
C12_Witness ==
    /\ pc = "sleep"
    /\ Len(taken) = 3
    /\ stored_values = <<taken[2], taken[3]>>
    /\ SnapCpu(taken[1]) # SnapCpu(taken[2])
    /\ SnapCpu(taken[2]) # SnapCpu(taken[3])
    /\ SnapCpu(taken[1]) # SnapCpu(taken[3])

\* a step of a live run that is not the end of the run by an interruption
LiveStep == pc # "call" /\ ~read /\ pc # "main" /\ pc' # "main"

\* the steps of a tick follow one another in the order read, append, clear
\* (in instant mode only), aggregate-render-persist, sleep
TickOrder ==
    /\ pc = "loop" => (pc' = "store" /\ <<cpu_times', core_times'>> \in ProcStat)
    /\ pc = "store" =>
          /\ pc' = "clear"
          /\ Len(stored_values') = Len(stored_values) + 1
          /\ SnapCpu(stored_values'[Len(stored_values')]) = cpu_times
          /\ SnapCores(stored_values'[Len(stored_values')]) = core_times
    /\ pc = "clear" =>
          /\ pc' = "print"
          /\ stdout' = (IF print_avg THEN stdout ELSE <<[kind |-> "clear"]>>)
    /\ (pc = "print" /\ pc' # "panic") =>
          /\ pc' = "evict"
          /\ Len(stored_values) >= 2 =>
                /\ \E k \in 1 .. Len(stdout') : stdout'[k].kind = "table"
                /\ Len(persisted') = Len(persisted) + 1
    /\ pc = "evict" => pc' = "sleep"
    /\ pc = "sleep" => (pc' = "loop" /\ now' >= start + Res)

\* C13 as stated: every tick of a live run performs its steps in the order
\* read snapshot, append to the window, clear the display (when not
\* averaging), aggregate, render, persist, sleep the rest of the second,
\* and the loop has no terminating state: no step ends the run.
C13_TickOrderForever ==
    [][LiveStep => (TickOrder /\ pc' \notin {"exit", "panic"})]_vars

\* the lines of a readable counter source that the reader parses: the
\* first, and the per-core lines after it
StatRead == <<call_args[2][1]>> \o CoreLines(Tail(call_args[2]))
StatReturned == pc = "call" /\ call_ret # <<>> /\ call_args[1] /\ call_args[2] # <<>>

\* C14 as stated: whenever the aggregate line or a per-core line has fewer
\* than 10 fields after the label, or holds a malformed numeric field, the
\* reader fails and produces no snapshot.
C14_ParseError ==
    (/\ StatReturned
     /\ \E k \in 1 .. Len(StatRead) :
           \/ Len(StatRead[k].words) < NumFields
           \/ \E i \in 1 .. Len(StatRead[k].words) : ~IsDigits(StatRead[k].words[i]))
    => (call_ret[1].panic /\ call_ret[1].val = <<>>)

\* C15: a run with --read, with or without a timestamp, bypasses sampling.
\* It is never anywhere in the live loop; its one step reads no snapshot,
\* leaves the window empty and the log file as it is, and ends the run: it
\* returns after rendering whenever the log holds records, and otherwise
\* returns or aborts on the log, without entering the loop.
C15_ReadBypassesSampling ==
    [][(pc # "call" /\ read) =>
         /\ pc \in {"main", "exit", "panic"}
         /\ stored_values = <<>> /\ taken = <<>>
         /\ cpu_times = <<>> /\ core_times = <<>>
         /\ pc = "main" =>
               /\ pc' \in {"exit", "panic"}
               /\ persisted # <<>> => (pc' = "exit" /\ stdout' # <<>>)
               /\ ticks' = ticks
               /\ cpu_times' = <<>> /\ core_times' = <<>>
               /\ stored_values' = <<>> /\ taken' = <<>>
               /\ file' = file /\ file_exists' = file_exists
               /\ persisted' = persisted /\ appended' = appended
               /\ now' = now]_vars

\* C15, witness: a read of one record has returned, on a log that a live
\* run of two or more ticks had written
C15_Witness ==
    /\ pc = "exit"
    /\ read
    /\ timestamp # <<>>
    /\ ticks >= 2
    /\ persisted # <<>>
    /\ stdout # <<>>
    /\ stdout[1].kind = "record"
    /\ stored_values = <<>>

\* C16: in average mode the divisor of lines 120 and 124 is never 0 when
\* print_values aggregates: whenever the live loop calls it in average mode
\* on a window of 2 or more snapshots, actual_times is at least 1, for every
\* N >= 0; with --times 0 the window never holds 2 snapshots.
C16_DivisorNotZero ==
    (pc # "call" /\ print_avg) =>
       /\ (pc = "print" /\ Len(stored_values) >= 2) =>
             /\ actual_times(Len(stored_values), print_avg, num_times) >= 1
             /\ actual_times(Len(stored_values), print_avg, num_times)
                   = Min(Len(stored_values), num_times)
             /\ num_times >= 1
       /\ num_times = 0 => Len(stored_values) <= 1

\* C16, the case of --times 0: the aggregator is called on a later
\* tick of the run, on a window of one snapshot
C16_TimesZeroReached ==
    /\ pc = "print"
    /\ print_avg
    /\ num_times = 0
    /\ Len(taken) >= 2
    /\ Len(stored_values) = 1

\* C16, witness: with --avg --times 1 the aggregator is about to divide the
\* sums of a window of two snapshots, by 1
C16_Witness ==
    /\ pc = "print"
    /\ print_avg
    /\ num_times = 1
    /\ Len(stored_values) = 2
    /\ actual_times(Len(stored_values), print_avg, num_times) = 1

\* C17 as stated: print_values never indexes its accumulators out of
\* range. On every window it is called on, with snapshots of whatever core
\* counts, every core index j accumulated from a pair is below the number
\* of per-core accumulators, that of the cores of the oldest snapshot of the
\* window, and the call does not abort.
C17_AccumulatorsInRange ==
    (pc = "print" /\ Len(stored_values) >= 2) =>
       /\ \A k \in PairIndices(Len(stored_values), print_avg, num_times) :
             \A j \in 1 .. Min(Len(SnapCores(stored_values[k])),
                               Len(SnapCores(stored_values[k + 1]))) :
                j <= Len(SnapCores(stored_values[1]))
       /\ ~Aborts(stored_values, print_avg, num_times)

\* the last two snapshots of the window hold the same counters
LastTwoIdentical ==
    /\ Len(stored_values) >= 2
    /\ SnapCpu(stored_values[Len(stored_values)])
         = SnapCpu(stored_values[Len(stored_values) - 1])
    /\ SnapCores(stored_values[Len(stored_values)])
         = SnapCores(stored_values[Len(stored_values) - 1])

\* every delta of a record is 0
AllZero(rec) ==
    /\ \A i \in 1 .. Len(rec.cpu) : rec.cpu[i] = 0
    /\ \A j \in 1 .. Len(rec.cores) :
          \A i \in 1 .. Len(rec.cores[j]) : rec.cores[j][i] = 0

\* C18 as stated: in instant mode, when the snapshot of a tick is identical
\* to the one before it (total_time is 0), the tick does not abort: the
\* delta table is rendered, a record of all-zero deltas is persisted, and
\* the loop goes on to the next tick.
C18_ZeroTotalNoAbort ==
    [][(pc = "print" /\ ~print_avg /\ LastTwoIdentical) =>
         /\ pc' = "evict"
         /\ \E k \in 1 .. Len(stdout') : stdout'[k].kind = "table"
         /\ Len(persisted') = Len(persisted) + 1
         /\ AllZero(persisted'[Len(persisted')])
         /\ LogRecords(file') = Append(LogRecords(file), persisted'[Len(persisted')])]_vars

\* this tick and the tick before it, both of the current run, have each
\* appended a record: the last two records of the log
TwoPersistedByRun ==
    /\ JustPersisted
    /\ Len(taken) >= 3
    /\ Len(persisted) >= 2

\* C19 as stated: within one live run, with a wall clock that never goes
\* back, the keys of successively persisted records are strictly
\* increasing, so no two records of the run share a key, whatever time the
\* ticks take to process.
C19_KeysIncreasing ==
    TwoPersistedByRun =>
       DigitsValue(persisted[Len(persisted)].key)
          > DigitsValue(persisted[Len(persisted) - 1].key)

====
